---- MODULE Spec2Model ----
(***************************************************************************)
(* A model of the Monkey interpreter (maiku1008/monkey): lexer.Lexer,       *)
(* parser.Parser (the Pratt parser), ast String() rendering,               *)
(* object.Environment, the loop of repl.Start, and the evaluator as the    *)
(* language definition describes it.                                       *)
(*                                                                         *)
(* Source text is a sequence of bytes (Go `string` indexed by byte), a     *)
(* byte is its numeric value, so that the lexer's range tests and its use  *)
(* of the byte 0 as the end-of-input mark are modelled as written.         *)
(***************************************************************************)
EXTENDS Integers, Sequences, FiniteSets, TLC

(***************************************************************************)
(* token/token.go                                                          *)
(***************************************************************************)

\* the token types, with the string values token.go gives them (these are
\* what a diagnostic prints); LET, IF, ELSE, TRUE, FALSE are written T_LET, ...
\* because the bare words are TLA+ keywords
ILLEGAL   == "ILLEGAL"
EOF       == "EOF"
IDENT     == "IDENT"
INT       == "INT"
ASSIGN    == "="
PLUS      == "+"
BANG      == "!"
MINUS     == "-"
SLASH     == "/"
ASTERISK  == "*"
LT        == "<"
GT        == ">"
EQ        == "=="
NOT_EQ    == "!="
COMMA     == ","
SEMICOLON == ";"
LPAREN    == "("
RPAREN    == ")"
LBRACE    == "{"
RBRACE    == "}"
FUNCTION  == "FUNCTION"
T_LET     == "LET"
T_IF      == "IF"
T_ELSE    == "ELSE"
T_TRUE    == "TRUE"
T_FALSE   == "FALSE"
RETURN    == "RETURN"

\* the spellings of the keywords, as bytes
kw_fn     == <<102, 110>>
kw_let    == <<108, 101, 116>>
kw_if     == <<105, 102>>
kw_else   == <<101, 108, 115, 101>>
kw_true   == <<116, 114, 117, 101>>
kw_false  == <<102, 97, 108, 115, 101>>
kw_return == <<114, 101, 116, 117, 114, 110>>

LookupIdent(ident) ==
    IF ident = kw_fn THEN FUNCTION
    ELSE IF ident = kw_let THEN T_LET
    ELSE IF ident = kw_if THEN T_IF
    ELSE IF ident = kw_else THEN T_ELSE
    ELSE IF ident = kw_true THEN T_TRUE
    ELSE IF ident = kw_false THEN T_FALSE
    ELSE IF ident = kw_return THEN RETURN
    ELSE IDENT

Token(type, literal) == [Type |-> type, Literal |-> literal]

(***************************************************************************)
(* lexer/lexer.go.  A Lexer is the record                                  *)
(*   [input, position, readPosition, ch];                                  *)
(* Go indexes input from 0, a TLA+ sequence from 1.                        *)
(***************************************************************************)

readChar(l) ==
    [l EXCEPT !.ch = IF l.readPosition >= Len(l.input)
                     THEN 0
                     ELSE l.input[l.readPosition + 1],
              !.position = l.readPosition,
              !.readPosition = l.readPosition + 1]

LexerNew(input) ==
    readChar([input |-> input, position |-> 0, readPosition |-> 0, ch |-> 0])

peekChar(l) ==
    IF l.readPosition >= Len(l.input) THEN 0 ELSE l.input[l.readPosition + 1]

isWhiteSpace(ch) == ch = 32 \/ ch = 9 \/ ch = 10 \/ ch = 13

RECURSIVE skipWhiteSpace(_)
skipWhiteSpace(l) ==
    IF isWhiteSpace(l.ch) THEN skipWhiteSpace(readChar(l)) ELSE l

isLetter(ch) == (97 <= ch /\ ch <= 122) \/ (65 <= ch /\ ch <= 90) \/ ch = 95

isDigit(ch) == 48 <= ch /\ ch <= 57

\* the lexer after the loop `for isLetter(l.ch) { l.readChar() }`
RECURSIVE skipLetters(_)
skipLetters(l) == IF isLetter(l.ch) THEN skipLetters(readChar(l)) ELSE l

\* the lexer after the loop `for isDigit(l.ch) { l.readChar() }`
RECURSIVE skipDigits(_)
skipDigits(l) == IF isDigit(l.ch) THEN skipDigits(readChar(l)) ELSE l

\* l.input[from:to] of Go
Slice(s, from, to) == SubSeq(s, from + 1, to)

\* readIdentifier and readNumber return the text read and leave the lexer
\* after it: [lit, l]
readIdentifier(l) ==
    LET l2 == skipLetters(l)
    IN  [lit |-> Slice(l.input, l.position, l2.position), l |-> l2]

readNumber(l) ==
    LET l2 == skipDigits(l)
    IN  [lit |-> Slice(l.input, l.position, l2.position), l |-> l2]

newToken(tokenType, ch) == Token(tokenType, <<ch>>)

\* the single-byte tokens of the switch in NextToken
SingleByteType(ch) ==
    CASE ch = 59  -> SEMICOLON
      [] ch = 40  -> LPAREN
      [] ch = 41  -> RPAREN
      [] ch = 44  -> COMMA
      [] ch = 43  -> PLUS
      [] ch = 123 -> LBRACE
      [] ch = 125 -> RBRACE
      [] ch = 45  -> MINUS
      [] ch = 47  -> SLASH
      [] ch = 42  -> ASTERISK
      [] ch = 60  -> LT
      [] ch = 62  -> GT
      [] OTHER    -> ILLEGAL

\* NextToken returns the token and the lexer it leaves: [tok, l]
NextToken(l0) ==
    LET l == skipWhiteSpace(l0)
    IN  IF l.ch = 61
        THEN IF peekChar(l) = 61
             THEN LET l2 == readChar(l)
                  IN  [tok |-> Token(EQ, <<l.ch, l2.ch>>), l |-> readChar(l2)]
             ELSE [tok |-> newToken(ASSIGN, l.ch), l |-> readChar(l)]
        ELSE IF l.ch = 33
        THEN IF peekChar(l) = 61
             THEN LET l2 == readChar(l)
                  IN  [tok |-> Token(NOT_EQ, <<l.ch, l2.ch>>), l |-> readChar(l2)]
             ELSE [tok |-> newToken(BANG, l.ch), l |-> readChar(l)]
        ELSE IF l.ch = 0
        THEN [tok |-> Token(EOF, <<>>), l |-> readChar(l)]
        ELSE IF SingleByteType(l.ch) # ILLEGAL
        THEN [tok |-> newToken(SingleByteType(l.ch), l.ch), l |-> readChar(l)]
        ELSE IF isLetter(l.ch)
        THEN LET r == readIdentifier(l)
             IN  [tok |-> Token(LookupIdent(r.lit), r.lit), l |-> r.l]
        ELSE IF isDigit(l.ch)
        THEN LET r == readNumber(l)
             IN  [tok |-> Token(INT, r.lit), l |-> r.l]
        ELSE [tok |-> newToken(ILLEGAL, l.ch), l |-> readChar(l)]

(***************************************************************************)
(* ast/ast.go.  A node is a record with a field `kind`.  NilNode is the    *)
(* nil interface value (an absent Expression); NilLetStatement is the nil  *)
(* *ast.LetStatement that parseLetStatement returns on failure: converted  *)
(* to the interface ast.Statement it is a non-nil interface value holding  *)
(* a nil pointer.                                                          *)
(***************************************************************************)

NilNode == [kind |-> "nil"]

NilLetStatement == [kind |-> "(*LetStatement)(nil)"]

Identifier(tok, value) == [kind |-> "Identifier", Token |-> tok, Value |-> value]

IntegerLiteral(tok, value) ==
    [kind |-> "IntegerLiteral", Token |-> tok, Value |-> value]

Boolean(tok, value) == [kind |-> "Boolean", Token |-> tok, Value |-> value]

PrefixExpression(tok, operator, right) ==
    [kind |-> "PrefixExpression", Token |-> tok, Operator |-> operator,
     Right |-> right]

InfixExpression(tok, left, operator, right) ==
    [kind |-> "InfixExpression", Token |-> tok, Left |-> left,
     Operator |-> operator, Right |-> right]

LetStatement(tok, name, value) ==
    [kind |-> "LetStatement", Token |-> tok, Name |-> name, Value |-> value]

ReturnStatement(tok, value) ==
    [kind |-> "ReturnStatement", Token |-> tok, ReturnValue |-> value]

ExpressionStatement(tok, expression) ==
    [kind |-> "ExpressionStatement", Token |-> tok, Expression |-> expression]

\* String() panics on a node when it calls a method through a nil interface
\* or reads a field through a nil pointer
RECURSIVE StringPanics(_)
StringPanics(n) ==
    CASE n.kind = "nil" -> TRUE
      [] n.kind = "(*LetStatement)(nil)" -> TRUE
      [] n.kind = "PrefixExpression" -> StringPanics(n.Right)
      [] n.kind = "InfixExpression" ->
            StringPanics(n.Left) \/ StringPanics(n.Right)
      [] n.kind = "LetStatement" ->
            \/ StringPanics(n.Name)
            \/ (n.Value.kind # "nil" /\ StringPanics(n.Value))
      [] n.kind = "ReturnStatement" ->
            n.ReturnValue.kind # "nil" /\ StringPanics(n.ReturnValue)
      [] n.kind = "ExpressionStatement" ->
            n.Expression.kind # "nil" /\ StringPanics(n.Expression)
      [] OTHER -> FALSE

\* String() of a node on which it does not panic, as bytes
RECURSIVE String(_)
String(n) ==
    CASE n.kind = "Identifier" -> n.Value
      [] n.kind = "IntegerLiteral" -> n.Token.Literal
      [] n.kind = "Boolean" -> n.Token.Literal
      [] n.kind = "PrefixExpression" ->
            <<40>> \o n.Operator \o String(n.Right) \o <<41>>
      [] n.kind = "InfixExpression" ->
            <<40>> \o String(n.Left) \o <<32>> \o n.Operator \o <<32>>
                   \o String(n.Right) \o <<41>>
      [] n.kind = "LetStatement" ->
            n.Token.Literal \o <<32>> \o String(n.Name) \o <<32, 61, 32>>
                \o (IF n.Value.kind # "nil" THEN String(n.Value) ELSE <<>>)
                \o <<59>>
      [] n.kind = "ReturnStatement" ->
            n.Token.Literal \o <<32>>
                \o (IF n.ReturnValue.kind # "nil" THEN String(n.ReturnValue)
                    ELSE <<>>)
                \o <<59>>
      [] n.kind = "ExpressionStatement" ->
            IF n.Expression.kind # "nil" THEN String(n.Expression) ELSE <<>>

\* Program.String(): the statements' renderings, concatenated
RECURSIVE ProgramString(_)
ProgramString(statements) ==
    IF statements = <<>> THEN <<>>
    ELSE String(Head(statements)) \o ProgramString(Tail(statements))

ProgramStringPanics(statements) ==
    \E i \in 1..Len(statements) : StringPanics(statements[i])

(***************************************************************************)
(* The parser (package parser, the version with operator precedence).      *)
(* A Parser is the record [l, errors, curToken, peekToken]; an operation   *)
(* that returns a value returns it with the parser it leaves.              *)
(***************************************************************************)

LOWEST      == 1
EQUALS      == 2
LESSGREATER == 3
SUM         == 4
PRODUCT     == 5
PREFIX      == 6
CALL        == 7

\* the table with `*` entered at the precedence of `+`
precedences_flat(t) ==
    CASE t = EQ       -> EQUALS
      [] t = NOT_EQ   -> EQUALS
      [] t = LT       -> LESSGREATER
      [] t = GT       -> LESSGREATER
      [] t = PLUS     -> SUM
      [] t = MINUS    -> SUM
      [] t = SLASH    -> PRODUCT
      [] t = ASTERISK -> SUM
      [] OTHER        -> LOWEST

\* the map `precedences` with the lookup's default, as peekPrecedence and
\* curPrecedence read it
precedences(t) ==
    CASE t = EQ       -> EQUALS
      [] t = NOT_EQ   -> EQUALS
      [] t = LT       -> LESSGREATER
      [] t = GT       -> LESSGREATER
      [] t = PLUS     -> SUM
      [] t = MINUS    -> SUM
      [] t = SLASH    -> PRODUCT
      [] t = ASTERISK -> PRODUCT
      [] OTHER        -> LOWEST

\* the handler registered for a token type by New, "nil" if none
prefixParseFns(t) ==
    CASE t = IDENT   -> "parseIdentifier"
      [] t = INT     -> "parseIntegerLiteral"
      [] t = BANG    -> "parsePrefixExpression"
      [] t = MINUS   -> "parsePrefixExpression"
      [] t = T_TRUE  -> "parseBoolean"
      [] t = T_FALSE -> "parseBoolean"
      [] OTHER       -> "nil"

infixParseFns(t) ==
    IF t \in {PLUS, MINUS, SLASH, ASTERISK, EQ, NOT_EQ, LT, GT}
    THEN "parseInfixExpression"
    ELSE "nil"

\* nextToken that pulls a token without promoting the peek token
nextToken_noPromote(p) ==
    LET r == NextToken(p.l)
    IN  [p EXCEPT !.peekToken = r.tok, !.l = r.l]

nextToken(p) ==
    LET r == NextToken(p.l)
    IN  [p EXCEPT !.curToken = p.peekToken, !.peekToken = r.tok, !.l = r.l]

\* New: the zero Parser, then two tokens read
ParserNew(l) ==
    nextToken(nextToken([l |-> l, errors |-> <<>>,
                         curToken |-> Token("", <<>>),
                         peekToken |-> Token("", <<>>)]))

curTokenIs(p, t) == p.curToken.Type = t

peekTokenIs(p, t) == p.peekToken.Type = t

\* a diagnostic is the format of its Sprintf and the arguments
Diag(fmt, args) == [fmt |-> fmt, args |-> args]

\* the diagnostic with the current token in the place of the peek token
peekError_cur(p, t) ==
    [p EXCEPT !.errors = Append(@,
        Diag("expected next token to be %s, got %s instead",
             <<t, p.curToken.Type>>))]

peekError(p, t) ==
    [p EXCEPT !.errors = Append(@,
        Diag("expected next token to be %s, got %s instead",
             <<t, p.peekToken.Type>>))]

\* [ok, p]
expectPeek(p, t) ==
    IF ~peekTokenIs(p, t)
    THEN [ok |-> FALSE, p |-> peekError(p, t)]
    ELSE [ok |-> TRUE, p |-> nextToken(p)]

\* no diagnostic, as in the parseExpression of parser/parser.go
noPrefixParseFnError_silent(p, t) == p

noPrefixParseFnError(p, t) ==
    [p EXCEPT !.errors = Append(@,
        Diag("no prefix parse function for %s found", <<t>>))]

peekPrecedence(p) == precedences(p.peekToken.Type)

curPrecedence(p) == precedences(p.curToken.Type)

\* strconv.ParseInt(s, 0, 64) on a non-empty run of decimal digits: base 0
\* takes a leading "0" as the octal prefix.  [ok, value]
RECURSIVE StripZeros(_)
StripZeros(d) ==
    IF d # <<>> /\ Head(d) = 48 THEN StripZeros(Tail(d)) ELSE d

RECURSIVE DigitsLeq(_, _)
DigitsLeq(a, b) ==
    \/ a = <<>>
    \/ Head(a) < Head(b)
    \/ Head(a) = Head(b) /\ DigitsLeq(Tail(a), Tail(b))

RECURSIVE DigitsValue(_, _, _)
DigitsValue(d, base, acc) ==
    IF d = <<>> THEN acc
    ELSE DigitsValue(Tail(d), base, acc * base + (Head(d) - 48))

\* the digits of 1<<63 - 1 in base 10 and in base 8
MaxInt64Digits(base) ==
    IF base = 10
    THEN <<57, 50, 50, 51, 51, 55, 50, 48, 51, 54, 56, 53, 52, 55, 55, 53,
           56, 48, 55>>
    ELSE [i \in 1..21 |-> 55]

ParseInt(s) ==
    LET base   == IF s[1] = 48 THEN 8 ELSE 10
        digits == IF s[1] = 48 THEN Tail(s) ELSE s
        sig    == StripZeros(digits)
        max    == MaxInt64Digits(base)
    IN  IF \E i \in 1..Len(digits) : digits[i] - 48 >= base
        THEN [ok |-> FALSE, value |-> 0]
        ELSE IF Len(sig) > Len(max) \/ (Len(sig) = Len(max) /\ ~DigitsLeq(sig, max))
        THEN [ok |-> FALSE, value |-> 0]
        ELSE [ok |-> TRUE, value |-> DigitsValue(sig, base, 0)]

\* the prefix handlers and parseExpression return [exp, p]
parseIdentifier(p) ==
    [exp |-> Identifier(p.curToken, p.curToken.Literal), p |-> p]

parseIntegerLiteral(p) ==
    LET r == ParseInt(p.curToken.Literal)
    IN  IF ~r.ok
        THEN [exp |-> NilNode,
              p |-> [p EXCEPT !.errors = Append(@,
                        Diag("could not parse %q as an integer",
                             <<p.curToken.Literal>>))]]
        ELSE [exp |-> IntegerLiteral(p.curToken, r.value), p |-> p]

parseBoolean(p) ==
    [exp |-> Boolean(p.curToken, curTokenIs(p, T_TRUE)), p |-> p]

RECURSIVE parseExpression(_, _)
RECURSIVE parseInfixLoop(_, _, _)
RECURSIVE parsePrefixExpression(_)
RECURSIVE parseInfixExpression(_, _)

parsePrefixExpression(p) ==
    LET r == parseExpression(nextToken(p), PREFIX)
    IN  [exp |-> PrefixExpression(p.curToken, p.curToken.Literal, r.exp),
         p |-> r.p]

parseInfixExpression(p, left) ==
    LET precedence == curPrecedence(p)
        r == parseExpression(nextToken(p), precedence)
    IN  [exp |-> InfixExpression(p.curToken, left, p.curToken.Literal, r.exp),
         p |-> r.p]

\* the `for` loop of parseExpression, entered with leftExp
parseInfixLoop(p, leftExp, precedence) ==
    IF ~peekTokenIs(p, SEMICOLON) /\ precedence < peekPrecedence(p)
    THEN IF infixParseFns(p.peekToken.Type) = "nil"
         THEN [exp |-> leftExp, p |-> p]
         ELSE LET r == parseInfixExpression(nextToken(p), leftExp)
              IN  parseInfixLoop(r.p, r.exp, precedence)
    ELSE [exp |-> leftExp, p |-> p]

parseExpression(p, precedence) ==
    LET prefixFn == prefixParseFns(p.curToken.Type)
    IN  IF prefixFn = "nil"
        THEN [exp |-> NilNode, p |-> noPrefixParseFnError(p, p.curToken.Type)]
        ELSE LET r == CASE prefixFn = "parseIdentifier" -> parseIdentifier(p)
                        [] prefixFn = "parseIntegerLiteral" ->
                              parseIntegerLiteral(p)
                        [] prefixFn = "parseBoolean" -> parseBoolean(p)
                        [] prefixFn = "parsePrefixExpression" ->
                              parsePrefixExpression(p)
             IN  parseInfixLoop(r.p, r.exp, precedence)

\* [stmt, p]
parseExpressionStatement(p) ==
    LET r == parseExpression(p, LOWEST)
    IN  [stmt |-> ExpressionStatement(p.curToken, r.exp),
         p |-> IF peekTokenIs(r.p, SEMICOLON) THEN nextToken(r.p) ELSE r.p]

\* what parseStatement's switch calls for the current token
parseStatement(p) ==
    CASE p.curToken.Type = T_LET  -> "parseLetStatement"
      [] p.curToken.Type = RETURN -> "parseReturnStatement"
      [] OTHER                    -> "parseExpressionStatement"

(***************************************************************************)
(* Inputs.  A source text is the spellings of its words joined by single   *)
(* spaces.                                                                 *)
(***************************************************************************)

w_let    == kw_let
w_return == kw_return
w_true   == kw_true
w_false  == kw_false
w_a      == <<97>>
w_b      == <<98>>
w_x      == <<120>>
w_5      == <<53>>
w_assign == <<61>>
w_semi   == <<59>>
w_plus   == <<43>>
w_minus  == <<45>>
w_bang   == <<33>>
w_star   == <<42>>
w_slash  == <<47>>
w_lt     == <<60>>
w_gt     == <<62>>
w_eq     == <<61, 61>>
w_neq    == <<33, 61>>
w_at     == <<64>>

RECURSIVE Spell(_)
Spell(ws) ==
    IF ws = <<>> THEN <<>>
    ELSE IF Len(ws) = 1 THEN ws[1]
    ELSE ws[1] \o <<32>> \o Spell(Tail(ws))

\* statements: well formed with and without the `;`, malformed, and with the
\* unrecognized character `@`
StmtPool ==
    { <<w_let, w_x, w_assign, w_5, w_semi>>,
      <<w_let, w_x, w_assign, w_5>>,
      <<w_let, w_x, w_5, w_semi>>,
      <<w_let, w_assign, w_5, w_semi>>,
      <<w_return, w_5, w_semi>>,
      <<w_return, w_5>>,
      <<w_a, w_semi>>,
      <<w_a>>,
      <<w_a, w_plus, w_b, w_semi>>,
      <<w_minus, w_a>>,
      <<w_minus, w_semi>>,
      <<w_5, w_plus>>,
      <<w_at, w_semi>>,
      <<w_let, w_x, w_assign, w_at, w_semi>> }

MaxStmts == 3

\* the sequences of at most n statements of the pool
RECURSIVE StmtSeqs(_)
StmtSeqs(n) ==
    IF n = 0 THEN {<<>>}
    ELSE StmtSeqs(n - 1)
         \cup {Append(s, ws) : s \in StmtSeqs(n - 1), ws \in StmtPool}

RECURSIVE Flatten(_)
Flatten(fs) == IF fs = <<>> THEN <<>> ELSE Head(fs) \o Flatten(Tail(fs))

\* expressions: operand (infix operand)*, operand = prefix* atom
Atoms == {w_a, w_5, w_true}

PrefixOps == {w_minus, w_bang}

InfixOps == {w_eq, w_neq, w_lt, w_gt, w_plus, w_minus, w_star, w_slash}

MaxExprToks == 5

RECURSIVE Operands(_)
Operands(n) ==
    IF n = 1 THEN {<<a>> : a \in Atoms}
    ELSE {<<q>> \o u : q \in PrefixOps, u \in Operands(n - 1)}

RECURSIVE Exprs(_)
Exprs(n) ==
    Operands(n)
    \cup UNION {{u \o <<o>> \o e : u \in Operands(k), o \in InfixOps,
                                  e \in Exprs(n - k - 1)} : k \in 1..(n - 2)}

ExprInputs == UNION {Exprs(n) : n \in 1..MaxExprToks}

\* an input is a sequence of fragments: statements of the pool, or one
\* expression
Inputs == StmtSeqs(MaxStmts) \cup {<<e>> : e \in ExprInputs}

TextOf(fs) == Spell(Flatten(fs))

(***************************************************************************)
(* ParseProgram as a state machine.  `program` is program.Statements, pc   *)
(* is the place in ParseProgram: "loop" at the head of its loop,           *)
(* "letSkip" and "returnSkip" inside the token-skipping loops of           *)
(* parseLetStatement and parseReturnStatement (with `stmt` the statement   *)
(* under construction), "done" after it returned.  After the first parse   *)
(* (pass = 1) the program is rendered with String() and the rendering is   *)
(* parsed by a new lexer and parser (pass = 2); `first` keeps the first    *)
(* program and its diagnostics, "panic" is a String() that panicked.       *)
(***************************************************************************)

VARIABLES frags, text, p, program, pc, stmt, pass, first

pvars == <<frags, text, p, program, pc, stmt, pass, first>>

(***************************************************************************)
(* The lexer on its own: lx is a Lexer, toks the tokens NextToken has      *)
(* returned so far.                                                        *)
(***************************************************************************)

VARIABLES lx, toks

lvars == <<lx, toks>>

(***************************************************************************)
(* object.Environment: envs is the heap of Environment values, a scope is  *)
(* its index in it and 0 is the nil *Environment; lastOp is the last call  *)
(* and what it returned.                                                   *)
(***************************************************************************)

VARIABLES envs, lastOp

evars == <<envs, lastOp>>

(***************************************************************************)
(* The other callers of the parser and the evaluator: `call` is the last   *)
(* parser operation called on its own and what it returned; `repl` is the  *)
(* state of repl.Start; `ev` is the state of an evaluation.                *)
(***************************************************************************)

VARIABLES call, repl, ev

xvars == <<call, repl, ev>>

vars == <<pvars, lvars, evars, xvars>>

\* the values the variables of a component have while another one runs
ParserIdle ==
    /\ frags = <<>>
    /\ text = <<>>
    /\ p = [l |-> LexerNew(<<>>), errors |-> <<>>,
            curToken |-> Token("", <<>>), peekToken |-> Token("", <<>>)]
    /\ program = <<>>
    /\ pc = "idle"
    /\ stmt = [kind |-> "nil"]
    /\ pass = 0
    /\ first = [statements |-> <<>>, errors |-> <<>>]

LexerIdle ==
    /\ lx = LexerNew(<<>>)
    /\ toks = <<>>

EnvIdle ==
    /\ envs = <<>>
    /\ lastOp = [op |-> "none"]

OpIdle == call = [op |-> "none"]

ReplIdle == repl = [at |-> "idle"]

EvalIdle == ev = [at |-> "idle"]

\* the skipping loops call NextToken without end once the input is exhausted;
\* the model follows them MaxEOFReads bytes past the end of the input
MaxEOFReads == 3

CanRead == p.l.readPosition < Len(p.l.input) + MaxEOFReads

NoFirst == [statements |-> <<>>, errors |-> <<>>]

Init ==
    /\ frags \in Inputs
    /\ text = TextOf(frags)
    /\ LexerIdle
    /\ EnvIdle
    /\ OpIdle
    /\ ReplIdle
    /\ EvalIdle
    /\ p = ParserNew(LexerNew(text))
    /\ program = <<>>
    /\ pc = "loop"
    /\ stmt = NilNode
    /\ pass = 1
    /\ first = NoFirst

\* one iteration of ParseProgram's loop on a let statement, up to the
\* skipping loop; a failed expectPeek ends the iteration with the nil
\* *LetStatement appended
ParseLetStatement ==
    /\ pc = "loop"
    /\ ~curTokenIs(p, EOF)
    /\ parseStatement(p) = "parseLetStatement"
    /\ LET r1   == expectPeek(p, IDENT)
           name == Identifier(r1.p.curToken, r1.p.curToken.Literal)
           r2   == expectPeek(r1.p, ASSIGN)
       IN  IF ~r1.ok
           THEN /\ program' = Append(program, NilLetStatement)
                /\ p' = nextToken(r1.p)
                /\ UNCHANGED <<pc, stmt>>
           ELSE IF ~r2.ok
           THEN /\ program' = Append(program, NilLetStatement)
                /\ p' = nextToken(r2.p)
                /\ UNCHANGED <<pc, stmt>>
           ELSE /\ stmt' = LetStatement(p.curToken, name, NilNode)
                /\ p' = r2.p
                /\ pc' = "letSkip"
                /\ UNCHANGED program
    /\ UNCHANGED <<lvars, evars, xvars, frags, text, pass, first>>

LetSkip ==
    /\ pc = "letSkip"
    /\ ~curTokenIs(p, SEMICOLON)
    /\ CanRead
    /\ p' = nextToken(p)
    /\ UNCHANGED <<lvars, evars, xvars, frags, text, program, pc, stmt, pass, first>>

LetReturn ==
    /\ pc = "letSkip"
    /\ curTokenIs(p, SEMICOLON)
    /\ program' = Append(program, stmt)
    /\ p' = nextToken(p)
    /\ pc' = "loop"
    /\ stmt' = NilNode
    /\ UNCHANGED <<lvars, evars, xvars, frags, text, pass, first>>

ParseReturnStatement ==
    /\ pc = "loop"
    /\ ~curTokenIs(p, EOF)
    /\ parseStatement(p) = "parseReturnStatement"
    /\ stmt' = ReturnStatement(p.curToken, NilNode)
    /\ p' = nextToken(p)
    /\ pc' = "returnSkip"
    /\ UNCHANGED <<lvars, evars, xvars, frags, text, program, pass, first>>

ReturnSkip ==
    /\ pc = "returnSkip"
    /\ ~curTokenIs(p, SEMICOLON)
    /\ CanRead
    /\ p' = nextToken(p)
    /\ UNCHANGED <<lvars, evars, xvars, frags, text, program, pc, stmt, pass, first>>

ReturnReturn ==
    /\ pc = "returnSkip"
    /\ curTokenIs(p, SEMICOLON)
    /\ program' = Append(program, stmt)
    /\ p' = nextToken(p)
    /\ pc' = "loop"
    /\ stmt' = NilNode
    /\ UNCHANGED <<lvars, evars, xvars, frags, text, pass, first>>

ParseExpressionStatement ==
    /\ pc = "loop"
    /\ ~curTokenIs(p, EOF)
    /\ parseStatement(p) = "parseExpressionStatement"
    /\ LET r == parseExpressionStatement(p)
       IN  /\ program' = Append(program, r.stmt)
           /\ p' = nextToken(r.p)
    /\ UNCHANGED <<lvars, evars, xvars, frags, text, pc, stmt, pass, first>>

ParseProgramReturn ==
    /\ pc = "loop"
    /\ curTokenIs(p, EOF)
    /\ pc' = "done"
    /\ UNCHANGED <<lvars, evars, xvars, frags, text, p, program, stmt, pass, first>>

\* program.String(), then lexer.New and parser.New on the rendering
Reparse ==
    /\ pc = "done"
    /\ pass = 1
    /\ first' = [statements |-> program, errors |-> p.errors]
    /\ IF ProgramStringPanics(program)
       THEN /\ pc' = "panic"
            /\ UNCHANGED <<p, program, pass>>
       ELSE /\ p' = ParserNew(LexerNew(ProgramString(program)))
            /\ program' = <<>>
            /\ pc' = "loop"
            /\ pass' = 2
    /\ UNCHANGED <<lvars, evars, xvars, frags, text, stmt>>

Next ==
    \/ ParseLetStatement
    \/ LetSkip
    \/ LetReturn
    \/ ParseReturnStatement
    \/ ReturnSkip
    \/ ReturnReturn
    \/ ParseExpressionStatement
    \/ ParseProgramReturn
    \/ Reparse

Spec == Init /\ [][Next]_vars

(***************************************************************************)
(* Properties of ParseProgram                                              *)
(***************************************************************************)

\* ParseProgram has returned from the parse of the input text
Parsed == pc = "done" /\ pass = 1

\* the rendering has been parsed again
Reparsed == pc = "done" /\ pass = 2

\* the input is exhausted: the lexer is past its end and both tokens of the
\* parser are EOF, so every later NextToken returns EOF
InputExhausted ==
    /\ p.l.readPosition > Len(p.l.input)
    /\ p.l.ch = 0
    /\ curTokenIs(p, EOF)
    /\ peekTokenIs(p, EOF)

\* C1: for every finite input text ParseProgram terminates, whether or not a
\* statement is followed by `;`: once the token stream is consumed and the
\* current token is EOF, ParseProgram is at the test of its loop, which
\* returns the Program, and not inside a statement still asking for tokens.
C1_ParseProgramTerminates ==
    InputExhausted => pc \in {"loop", "done", "panic"}

\* a skipping loop that has exhausted the input stays in that state for ever
\* (the run never reaches "done")
C1_SkipLoopNeverEnds ==
    [][(InputExhausted /\ pc \in {"letSkip", "returnSkip"})
        => (InputExhausted /\ pc \in {"letSkip", "returnSkip"})']_vars

\* C2: a statement that fails a required-token check adds no entry to
\* Program.Statements: no element of Statements is a nil statement.
C2_NoNilStatement ==
    \A i \in 1..Len(program) : program[i].kind # NilLetStatement.kind

\* The expected rendering of an expression given as words, computed from the
\* precedence levels of the language definition by splitting at the operator
\* that binds last: the rightmost infix operator of the lowest level.
RefLevel(op) ==
    CASE op \in {w_eq, w_neq}     -> 1
      [] op \in {w_lt, w_gt}      -> 2
      [] op \in {w_plus, w_minus} -> 3
      [] op \in {w_star, w_slash} -> 4

RefInfixPositions(ws) ==
    {i \in 2..Len(ws) : ws[i] \in InfixOps /\ ws[i - 1] \in Atoms}

RECURSIVE RefRender(_)
RefRender(ws) ==
    LET pos == RefInfixPositions(ws)
    IN  IF pos = {}
        THEN IF Len(ws) = 1 THEN ws[1]
             ELSE <<40>> \o ws[1] \o RefRender(Tail(ws)) \o <<41>>
        ELSE LET k == CHOOSE i \in pos :
                        \A j \in pos :
                            \/ RefLevel(ws[j]) > RefLevel(ws[i])
                            \/ RefLevel(ws[j]) = RefLevel(ws[i]) /\ j <= i
             IN  <<40>> \o RefRender(SubSeq(ws, 1, k - 1))
                        \o <<32>> \o ws[k] \o <<32>>
                        \o RefRender(SubSeq(ws, k + 1, Len(ws))) \o <<41>>

IsExprInput == Len(frags) = 1 /\ frags[1] \in ExprInputs

\* C3: an expression of identifiers, integer and boolean literals, prefix
\* `-` `!` and the eight infix operators parses, without diagnostics, to one
\* expression statement whose rendering is the full parenthesization the
\* precedence levels and left associativity give.
C3_PrecedenceRendering ==
    (Parsed /\ IsExprInput) =>
        /\ p.errors = <<>>
        /\ Len(program) = 1
        /\ program[1].kind = "ExpressionStatement"
        /\ ~StringPanics(program[1])
        /\ String(program[1]) = RefRender(frags[1])

\* `a + 5 * a` has been parsed to `(a + (5 * a))`
C3_Witness ==
    /\ Parsed
    /\ frags = <<(<<w_a, w_plus, w_5, w_star, w_a>>)>>
    /\ String(program[1]) = <<40, 97, 32, 43, 32, 40, 53, 32, 42, 32, 97, 41, 41>>

\* C4: a parsed let statement holds the parse of its expression as Value and
\* a parsed return statement holds it as ReturnValue: neither is absent.
C4_StatementValueParsed ==
    Parsed =>
        \A i \in 1..Len(program) :
            /\ program[i].kind = "LetStatement" =>
                   program[i].Value.kind # "nil"
            /\ program[i].kind = "ReturnStatement" =>
                   program[i].ReturnValue.kind # "nil"

MalformedLets ==
    { <<w_let, w_x, w_5, w_semi>>, <<w_let, w_assign, w_5, w_semi>> }

\* the well-formed, `;`-terminated statements of the pool
Followers ==
    { <<w_let, w_x, w_assign, w_5, w_semi>>, <<w_return, w_5, w_semi>>,
      <<w_a, w_semi>>, <<w_a, w_plus, w_b, w_semi>> }

\* statement st is the parse of the follower ws
ParseOfFollower(st, ws) ==
    IF ws[1] = w_let
    THEN st.kind = "LetStatement" /\ st.Name.Value = ws[2]
    ELSE IF ws[1] = w_return
    THEN st.kind = "ReturnStatement"
    ELSE /\ st.kind = "ExpressionStatement"
         /\ ~StringPanics(st)
         /\ String(st) = (IF Len(ws) = 2 THEN ws[1]
                          ELSE <<40>> \o ws[1] \o <<32>> \o ws[2] \o <<32>>
                                      \o ws[3] \o <<41>>)

\* C5: when a malformed let statement is followed by further statements,
\* the returned parse has at least one diagnostic and the statements that
\* follow the malformed one are parsed into the Program.
C5_RecoversAfterMalformedLet ==
    Parsed =>
        \A k \in 1..(Len(frags) - 1) :
            (/\ frags[k] \in MalformedLets
             /\ \A j \in (k + 1)..Len(frags) : frags[j] \in Followers)
            => /\ Len(p.errors) >= 1
               /\ Len(program) >= Len(frags) - k
               /\ \A j \in (k + 1)..Len(frags) :
                      ParseOfFollower(program[Len(program) - (Len(frags) - j)],
                                      frags[j])

\* two trees have the same kinds, operators, names, literals and structure
RECURSIVE SameTree(_, _)
SameTree(a, b) ==
    /\ a.kind = b.kind
    /\ CASE a.kind = "Identifier" -> a.Value = b.Value
         [] a.kind = "IntegerLiteral" -> a.Value = b.Value
         [] a.kind = "Boolean" -> a.Value = b.Value
         [] a.kind = "PrefixExpression" ->
               a.Operator = b.Operator /\ SameTree(a.Right, b.Right)
         [] a.kind = "InfixExpression" ->
               /\ a.Operator = b.Operator
               /\ SameTree(a.Left, b.Left)
               /\ SameTree(a.Right, b.Right)
         [] a.kind = "LetStatement" ->
               SameTree(a.Name, b.Name) /\ SameTree(a.Value, b.Value)
         [] a.kind = "ReturnStatement" ->
               SameTree(a.ReturnValue, b.ReturnValue)
         [] a.kind = "ExpressionStatement" ->
               SameTree(a.Expression, b.Expression)
         [] OTHER -> TRUE

\* C6: a Program parsed without diagnostics renders to text that parses
\* again without diagnostics to an equivalent tree.
C6_RenderingReparses ==
    (Reparsed /\ first.errors = <<>>) =>
        /\ p.errors = <<>>
        /\ Len(program) = Len(first.statements)
        /\ \A i \in 1..Len(program) : SameTree(program[i], first.statements[i])

\* C7: the rendering is a fixed point: the parse of P.String() renders to
\* P.String() again.
C7_RenderingFixedPoint ==
    Reparsed =>
        /\ ~ProgramStringPanics(program)
        /\ ProgramString(program) = ProgramString(first.statements)

\* the tokens NextToken returns up to the first EOF
RECURSIVE TokensFrom(_)
TokensFrom(l) ==
    LET r == NextToken(l)
    IN  IF r.tok.Type = EOF THEN <<>> ELSE <<r.tok>> \o TokensFrom(r.l)

\* C11: every unrecognized character (here `@`) becomes an ILLEGAL token, and
\* whenever the token stream handed to ParseProgram holds an ILLEGAL token,
\* wherever it occurs, the diagnostics are not empty after the parse.
C11_IllegalTokenRejected ==
    Parsed =>
        LET stream == TokensFrom(LexerNew(text))
        IN  /\ Cardinality({i \in 1..Len(stream) : stream[i].Type = ILLEGAL})
                  = Cardinality({i \in 1..Len(text) : text[i] = 64})
            /\ (\E i \in 1..Len(stream) : stream[i].Type = ILLEGAL)
                  => p.errors # <<>>

(***************************************************************************)
(* The lexer on its own: NextToken called again and again on one Lexer.    *)
(***************************************************************************)

\* the bytes of the inputs: NUL, space, `!`, `5`, `;`, `=`, `@`, `a`
LexBytes == {0, 32, 33, 53, 59, 61, 64, 97}

MaxChars == 3

LexInputs == UNION {[1..n -> LexBytes] : n \in 0..MaxChars}

LexInit ==
    /\ ParserIdle
    /\ EnvIdle
    /\ OpIdle
    /\ ReplIdle
    /\ EvalIdle
    /\ \E input \in LexInputs : lx = LexerNew(input)
    /\ toks = <<>>

\* one call of NextToken; the calls after the end of the input are followed
\* for MaxEOFReads bytes
LexNextToken ==
    /\ lx.readPosition < Len(lx.input) + MaxEOFReads
    /\ LET r == NextToken(lx)
       IN  /\ lx' = r.l
           /\ toks' = Append(toks, r.tok)
    /\ UNCHANGED <<pvars, evars, xvars>>

LexSpec == LexInit /\ [][LexNextToken]_vars

\* C8: once NextToken has returned EOF, every later call on the same lexer
\* returns EOF, for every input byte string.
C8_EOFIsSticky ==
    \A i \in 1..Len(toks) : \A j \in i..Len(toks) :
        toks[i].Type = EOF => toks[j].Type = EOF

(***************************************************************************)
(* object/object.go: Environment                                           *)
(***************************************************************************)

Names == {"x", "y"}

Objects == {"1", "2"}

\* the nil Object that a failed map lookup yields
NilObject == "nil"

MaxEnvs == 2

\* a Go map as a function on the set of its keys
EmptyStore == [n \in {} |-> NilObject]

\* the heap after NewEnvironment(): the new scope is the last one
NewEnvironment(h) == Append(h, [store |-> EmptyStore, outer |-> 0])

NewEnclosedEnvironment(h, outer) ==
    LET h2 == NewEnvironment(h)
    IN  [h2 EXCEPT ![Len(h2)].outer = outer]

\* Get that looks in the scope's own map only
EnvGet_localOnly(h, e, name) ==
    LET ok == name \in DOMAIN h[e].store
    IN  [obj |-> IF ok THEN h[e].store[name] ELSE NilObject, ok |-> ok]

\* Environment.Get: [obj, ok]
RECURSIVE EnvGet(_, _, _)
EnvGet(h, e, name) ==
    LET ok == name \in DOMAIN h[e].store
    IN  IF ~ok /\ h[e].outer # 0
        THEN EnvGet(h, h[e].outer, name)
        ELSE [obj |-> IF ok THEN h[e].store[name] ELSE NilObject, ok |-> ok]

\* the map m after m[name] = val
MapStore(m, name, val) ==
    [n \in DOMAIN m \cup {name} |-> IF n = name THEN val ELSE m[n]]

\* Set that rebinds the name in the enclosing scope when only that one
\* binds it
EnvSet_rebindOuter(h, e, name, val) ==
    LET target == IF /\ name \notin DOMAIN h[e].store
                     /\ h[e].outer # 0
                     /\ name \in DOMAIN h[h[e].outer].store
                  THEN h[e].outer
                  ELSE e
    IN  [h |-> [h EXCEPT ![target].store = MapStore(@, name, val)],
         ret |-> val]

\* Environment.Set: the heap it leaves and the value it returns, [h, ret]
EnvSet(h, e, name, val) ==
    [h |-> [h EXCEPT ![e].store = MapStore(@, name, val)], ret |-> val]

EnvInit ==
    /\ ParserIdle
    /\ LexerIdle
    /\ OpIdle
    /\ ReplIdle
    /\ EvalIdle
    /\ envs = <<>>
    /\ lastOp = [op |-> "none"]

CallNewEnvironment ==
    /\ Len(envs) < MaxEnvs
    /\ envs' = NewEnvironment(envs)
    /\ lastOp' = [op |-> "NewEnvironment", e |-> Len(envs) + 1]
    /\ UNCHANGED <<pvars, lvars, xvars>>

CallNewEnclosedEnvironment ==
    /\ Len(envs) < MaxEnvs
    /\ \E outer \in 0..Len(envs) :
          /\ envs' = NewEnclosedEnvironment(envs, outer)
          /\ lastOp' = [op |-> "NewEnclosedEnvironment", e |-> Len(envs) + 1,
                        outer |-> outer]
    /\ UNCHANGED <<pvars, lvars, xvars>>

CallGet ==
    /\ \E e \in 1..Len(envs), name \in Names :
          LET r == EnvGet(envs, e, name)
          IN  lastOp' = [op |-> "Get", e |-> e, name |-> name,
                         obj |-> r.obj, ok |-> r.ok]
    /\ UNCHANGED envs
    /\ UNCHANGED <<pvars, lvars, xvars>>

CallSet ==
    /\ \E e \in 1..Len(envs), name \in Names, val \in Objects :
          LET r == EnvSet(envs, e, name, val)
          IN  /\ envs' = r.h
              /\ lastOp' = [op |-> "Set", e |-> e, name |-> name,
                            val |-> val, ret |-> r.ret]
    /\ UNCHANGED <<pvars, lvars, xvars>>

EnvNext ==
    \/ CallNewEnvironment
    \/ CallNewEnclosedEnvironment
    \/ CallGet
    \/ CallSet

EnvSpec == EnvInit /\ [][EnvNext]_vars

\* the scopes from e outwards
RECURSIVE ScopeChain(_, _)
ScopeChain(h, e) ==
    IF e = 0 THEN <<>> ELSE <<e>> \o ScopeChain(h, h[e].outer)

\* the call `op` of Get on heap h returned the binding of the first scope of
\* the chain that binds the name, and not-found if none does
GetIsInnermost(h, op) ==
    LET chain   == ScopeChain(h, op.e)
        binders == {i \in 1..Len(chain) : op.name \in DOMAIN h[chain[i]].store}
    IN  IF binders = {}
        THEN ~op.ok /\ op.obj = NilObject
        ELSE LET i == CHOOSE b \in binders : \A c \in binders : b <= c
             IN  op.ok /\ op.obj = h[chain[i]].store[op.name]

\* C9: Get returns the binding of the innermost scope of the chain that
\* binds the name, not-found only when none does, and changes no scope.
C9_GetResolvesInnermost ==
    [][lastOp'.op = "Get" => (envs' = envs /\ GetIsInnermost(envs, lastOp'))]_vars

\* Get has returned the inner binding of a name that the enclosing scope
\* binds to another value
C9_Witness ==
    /\ lastOp.op = "Get"
    /\ envs[lastOp.e].outer # 0
    /\ lastOp.name \in DOMAIN envs[lastOp.e].store
    /\ lastOp.name \in DOMAIN envs[envs[lastOp.e].outer].store
    /\ envs[envs[lastOp.e].outer].store[lastOp.name] # lastOp.obj
    /\ lastOp.ok

\* C10: Set returns the value and changes only the entry for the name in the
\* scope's own map: every other entry, every other scope's map and all outer
\* links are unchanged.
C10_SetIsLocal ==
    [][lastOp'.op = "Set" =>
        /\ lastOp'.ret = lastOp'.val
        /\ Len(envs') = Len(envs)
        /\ \A i \in 1..Len(envs) :
              /\ envs'[i].outer = envs[i].outer
              /\ i # lastOp'.e => envs'[i].store = envs[i].store
        /\ LET m  == envs[lastOp'.e].store
               m2 == envs'[lastOp'.e].store
           IN  /\ DOMAIN m2 = DOMAIN m \cup {lastOp'.name}
               /\ m2[lastOp'.name] = lastOp'.val
               /\ \A n \in DOMAIN m : n # lastOp'.name => m2[n] = m[n]]_vars

\* Set has bound, in an inner scope, a name that the enclosing scope binds to
\* another value
C10_Witness ==
    /\ lastOp.op = "Set"
    /\ envs[lastOp.e].outer # 0
    /\ lastOp.name \in DOMAIN envs[envs[lastOp.e].outer].store
    /\ envs[envs[lastOp.e].outer].store[lastOp.name] # lastOp.val
    /\ envs[lastOp.e].store[lastOp.name] = lastOp.val

(***************************************************************************)
(* repl/repl.go: Start, the version that parses and evaluates.  repl.at is *)
(* the place in its loop ("scan" at scanner.Scan(), "parse" inside         *)
(* ParseProgram, "exit" after it returned), repl.n the number of lines     *)
(* read, repl.last what was done with the last parsed line.  The           *)
(* evaluator's result is not known here: Eval returns nil or an Object.    *)
(***************************************************************************)

\* the lines typed: one statement of the pool, or nothing
ReplLines == {<<>>} \cup {<<f>> : f \in StmtPool}

MaxLines == 2

Errors(q) == q.errors

\* the test of Start with the errors ignored
HasParserErrors_never(q) == FALSE

\* `len(p.Errors()) != 0`
HasParserErrors(q) == Len(Errors(q)) # 0

\* what printParserErrors writes: a line for each message
printParserErrors(errors) == errors

ReplInit ==
    /\ ParserIdle
    /\ LexerIdle
    /\ EnvIdle
    /\ OpIdle
    /\ EvalIdle
    /\ repl = [at |-> "scan", n |-> 0, last |-> [act |-> "none"]]

\* scanner.Scan() returns a line: a new lexer and a new parser on it
ReplScan ==
    /\ repl.at = "scan"
    /\ repl.n < MaxLines
    /\ \E line \in ReplLines :
          /\ frags' = line
          /\ text' = TextOf(line)
          /\ p' = ParserNew(LexerNew(TextOf(line)))
    /\ program' = <<>>
    /\ pc' = "loop"
    /\ stmt' = NilNode
    /\ pass' = 1
    /\ repl' = [repl EXCEPT !.at = "parse", !.n = @ + 1]
    /\ UNCHANGED <<lvars, evars, first, call, ev>>

\* scanner.Scan() returns false: Start returns
ReplReturn ==
    /\ repl.at = "scan"
    /\ repl' = [repl EXCEPT !.at = "exit"]
    /\ UNCHANGED <<pvars, lvars, evars, call, ev>>

\* ParseProgram has returned with diagnostics: they are printed, `continue`
ReplPrintParserErrors ==
    /\ repl.at = "parse"
    /\ pc = "done"
    /\ HasParserErrors(p)
    /\ repl' = [repl EXCEPT !.at = "scan",
                            !.last = [act |-> "printParserErrors",
                                      out |-> printParserErrors(Errors(p))]]
    /\ pc' = "idle"
    /\ UNCHANGED <<lvars, evars, call, ev,
                   frags, text, p, program, stmt, pass, first>>

\* ParseProgram has returned without diagnostics: evaluator.Eval(program),
\* and its Inspect() is written when it is not nil
ReplEval ==
    /\ repl.at = "parse"
    /\ pc = "done"
    /\ ~HasParserErrors(p)
    /\ \E evaluated \in {"nil", "Object"} :
          repl' = [repl EXCEPT !.at = "scan",
                               !.last = [act |-> "Eval",
                                         program |-> program,
                                         errors |-> Errors(p),
                                         out |-> IF evaluated # "nil"
                                                 THEN <<"Inspect">>
                                                 ELSE <<>>]]
    /\ pc' = "idle"
    /\ UNCHANGED <<lvars, evars, call, ev,
                   frags, text, p, program, stmt, pass, first>>

ReplNext ==
    \/ ReplScan
    \/ ReplReturn
    \/ ParseLetStatement
    \/ LetSkip
    \/ LetReturn
    \/ ParseReturnStatement
    \/ ReturnSkip
    \/ ReturnReturn
    \/ ParseExpressionStatement
    \/ ParseProgramReturn
    \/ ReplPrintParserErrors
    \/ ReplEval

ReplSpec == ReplInit /\ [][ReplNext]_vars

\* C12: a line whose parse produced a diagnostic is never passed to the
\* evaluator: only the parse errors are printed and the loop goes on to the
\* next line; Eval is called only when the diagnostics list is empty.
C12_NoEvalAfterParseErrors ==
    [][(repl.at = "parse" /\ repl'.at # "parse") =>
          /\ repl'.at = "scan"
          /\ IF p.errors # <<>>
             THEN repl'.last = [act |-> "printParserErrors", out |-> p.errors]
             ELSE /\ repl'.last.act = "Eval"
                  /\ repl'.last.program = program]_vars

\* the errors of a line have been printed and the next line is being parsed
C12_Witness ==
    /\ repl.last.act = "printParserErrors"
    /\ repl.last.out # <<>>
    /\ repl.at = "parse"
    /\ repl.n = 2

(***************************************************************************)
(* Objects (object/object.go) and the evaluator.  The evaluator package is *)
(* imported by repl.go and is not among the sources: Eval and the nodes    *)
(* BlockStatement, IfExpression, FunctionLiteral and CallExpression follow *)
(* the language definition (sections 3 and 4.4).  An evaluation threads    *)
(*   s = [h, blocks, calls]:                                               *)
(* the heap of Environments, and a record of every block evaluated and of  *)
(* every function applied.                                                 *)
(***************************************************************************)

BOOLEAN_OBJ      == "BOOLEAN"
ERROR_OBJ        == "ERROR"
FUNCTION_OBJ     == "FUNCTION"
INTEGER_OBJ      == "INTEGER"
NULL_OBJ         == "NULL"
RETURN_VALUE_OBJ == "RETURN_VALUE"

Integer(value) == [Type |-> INTEGER_OBJ, Value |-> value]

BooleanObject(value) == [Type |-> BOOLEAN_OBJ, Value |-> value]

Null == [Type |-> NULL_OBJ]

ReturnValue(value) == [Type |-> RETURN_VALUE_OBJ, Value |-> value]

Error(message) == [Type |-> ERROR_OBJ, Message |-> message]

Function(parameters, body, env) ==
    [Type |-> FUNCTION_OBJ, Parameters |-> parameters, Body |-> body,
     Env |-> env]

\* what a statement that produces no value yields
NoObject == [Type |-> "nil"]

BlockStatement(tok, statements) ==
    [kind |-> "BlockStatement", Token |-> tok, Statements |-> statements]

\* alternative is NilNode when there is no else
IfExpression(tok, condition, consequence, alternative) ==
    [kind |-> "IfExpression", Token |-> tok, Condition |-> condition,
     Consequence |-> consequence, Alternative |-> alternative]

FunctionLiteral(tok, parameters, body) ==
    [kind |-> "FunctionLiteral", Token |-> tok, Parameters |-> parameters,
     Body |-> body]

CallExpression(tok, function, arguments) ==
    [kind |-> "CallExpression", Token |-> tok, Function |-> function,
     Arguments |-> arguments]

isError(obj) == obj.Type = ERROR_OBJ

\* a sequence that goes on after an Error
Stops_returnOnly(obj) == obj.Type = RETURN_VALUE_OBJ

\* the value of a statement that ends the sequence it is in
Stops(obj) == obj.Type = RETURN_VALUE_OBJ \/ obj.Type = ERROR_OBJ

isTruthy(obj) ==
    CASE obj.Type = NULL_OBJ    -> FALSE
      [] obj.Type = BOOLEAN_OBJ -> obj.Value
      [] OTHER                  -> TRUE

\* Go's integer division, which truncates
Quotient(a, b) ==
    LET abs(v) == IF v < 0 THEN 0 - v ELSE v
        q == abs(a) \div abs(b)
    IN  IF (a < 0) = (b < 0) THEN q ELSE 0 - q

evalBangOperatorExpression(right) == BooleanObject(~isTruthy(right))

evalMinusPrefixOperatorExpression(right) ==
    IF right.Type # INTEGER_OBJ
    THEN Error(Diag("unknown operator: -%s", <<right.Type>>))
    ELSE Integer(0 - right.Value)

evalPrefixExpression(operator, right) ==
    CASE operator = w_bang  -> evalBangOperatorExpression(right)
      [] operator = w_minus -> evalMinusPrefixOperatorExpression(right)
      [] OTHER -> Error(Diag("unknown operator: %s%s", <<operator, right.Type>>))

evalIntegerInfixExpression(operator, left, right) ==
    CASE operator = w_plus  -> Integer(left.Value + right.Value)
      [] operator = w_minus -> Integer(left.Value - right.Value)
      [] operator = w_star  -> Integer(left.Value * right.Value)
      [] operator = w_slash /\ right.Value # 0 ->
            Integer(Quotient(left.Value, right.Value))
      [] operator = w_lt    -> BooleanObject(left.Value < right.Value)
      [] operator = w_gt    -> BooleanObject(left.Value > right.Value)
      [] operator = w_eq    -> BooleanObject(left.Value = right.Value)
      [] operator = w_neq   -> BooleanObject(left.Value # right.Value)

\* Boolean and Null are canonical instances: identity is equality of value
SameInstance(left, right) ==
    IF left.Type = BOOLEAN_OBJ THEN left.Value = right.Value ELSE TRUE

evalInfixExpression(operator, left, right) ==
    IF left.Type = INTEGER_OBJ /\ right.Type = INTEGER_OBJ
    THEN evalIntegerInfixExpression(operator, left, right)
    ELSE IF left.Type # right.Type
    THEN Error(Diag("type mismatch: %s %s %s",
                    <<left.Type, operator, right.Type>>))
    ELSE IF operator = w_eq /\ left.Type \in {BOOLEAN_OBJ, NULL_OBJ}
    THEN BooleanObject(SameInstance(left, right))
    ELSE IF operator = w_neq /\ left.Type \in {BOOLEAN_OBJ, NULL_OBJ}
    THEN BooleanObject(~SameInstance(left, right))
    ELSE Error(Diag("unknown operator: %s %s %s",
                    <<left.Type, operator, right.Type>>))

evalIdentifier(node, env, h) ==
    LET r == EnvGet(h, env, node.Value)
    IN  IF r.ok THEN r.obj
        ELSE Error(Diag("identifier not found: %s", <<node.Value>>))

\* a function literal that captures the outermost scope
evalFunctionLiteral_global(node, env) ==
    Function(node.Parameters, node.Body, 1)

\* the Function captures the scope its literal is evaluated in
evalFunctionLiteral(node, env) ==
    Function(node.Parameters, node.Body, env)

\* the heap with the parameters bound, one Set each, in scope e
RECURSIVE bindParameters(_, _, _, _, _)
bindParameters(h, e, parameters, args, i) ==
    IF i > Len(parameters) THEN h
    ELSE bindParameters(EnvSet(h, e, parameters[i].Value, args[i]).h, e,
                        parameters, args, i + 1)

\* the heap with the scope of a call of fn added as its last scope
extendFunctionEnv(fn, args, h) ==
    LET h2 == NewEnclosedEnvironment(h, fn.Env)
    IN  bindParameters(h2, Len(h2), fn.Parameters, args, 1)

unwrapReturnValue(obj) ==
    IF obj.Type = RETURN_VALUE_OBJ THEN obj.Value ELSE obj

\* the record of a sequence that has been evaluated: its statements, the
\* statements evaluated with their values, and its result
SequenceRecord(stmts, steps, result) ==
    [stmts |-> stmts, steps |-> steps, result |-> result]

\* Eval, evalStatements and applyFunction return [val, s]; evalExpressions
\* returns [vals, s], vals being the one Error when an argument yields one
RECURSIVE Eval(_, _, _)
RECURSIVE evalStatements(_, _, _, _, _)
RECURSIVE evalExpressions(_, _, _, _, _)
RECURSIVE applyFunction(_, _, _)

\* the statements of a block from the i-th on, after `steps`
evalStatements(stmts, i, steps, env, s) ==
    IF i > Len(stmts)
    THEN LET result == IF steps = <<>> THEN NoObject
                       ELSE steps[Len(steps)].val
         IN  [val |-> result,
              s |-> [s EXCEPT !.blocks =
                        Append(@, SequenceRecord(stmts, steps, result))]]
    ELSE LET r      == Eval(stmts[i], env, s)
             steps2 == Append(steps, [stmt |-> stmts[i], val |-> r.val])
         IN  IF Stops(r.val)
             THEN [val |-> r.val,
                   s |-> [r.s EXCEPT !.blocks =
                             Append(@, SequenceRecord(stmts, steps2, r.val))]]
             ELSE evalStatements(stmts, i + 1, steps2, env, r.s)

evalBlockStatement(block, env, s) ==
    evalStatements(block.Statements, 1, <<>>, env, s)

evalExpressions(exps, i, vals, env, s) ==
    IF i > Len(exps) THEN [vals |-> vals, s |-> s]
    ELSE LET r == Eval(exps[i], env, s)
         IN  IF isError(r.val) THEN [vals |-> <<r.val>>, s |-> r.s]
             ELSE evalExpressions(exps, i + 1, Append(vals, r.val), env, r.s)

applyFunction(fn, args, s) ==
    IF fn.Type # FUNCTION_OBJ
    THEN [val |-> Error(Diag("not a function: %s", <<fn.Type>>)), s |-> s]
    ELSE IF Len(args) # Len(fn.Parameters)
    THEN [val |-> Error(Diag("wrong number of arguments: want=%d, got=%d",
                             <<Len(fn.Parameters), Len(args)>>)),
          s |-> s]
    ELSE LET h2 == extendFunctionEnv(fn, args, s.h)
             r  == evalBlockStatement(fn.Body, Len(h2),
                       [s EXCEPT !.h = h2,
                                 !.calls = Append(@, [fn |-> fn,
                                                      env |-> Len(h2)])])
         IN  [val |-> unwrapReturnValue(r.val), s |-> r.s]

Eval(node, env, s) ==
    CASE node.kind = "ExpressionStatement" -> Eval(node.Expression, env, s)
      [] node.kind = "LetStatement" ->
            LET r == Eval(node.Value, env, s)
            IN  IF isError(r.val) THEN r
                ELSE [val |-> NoObject,
                      s |-> [r.s EXCEPT !.h =
                                EnvSet(@, env, node.Name.Value, r.val).h]]
      [] node.kind = "ReturnStatement" ->
            LET r == Eval(node.ReturnValue, env, s)
            IN  IF isError(r.val) THEN r
                ELSE [val |-> ReturnValue(r.val), s |-> r.s]
      [] node.kind = "BlockStatement" -> evalBlockStatement(node, env, s)
      [] node.kind = "IntegerLiteral" -> [val |-> Integer(node.Value), s |-> s]
      [] node.kind = "Boolean" -> [val |-> BooleanObject(node.Value), s |-> s]
      [] node.kind = "PrefixExpression" ->
            LET r == Eval(node.Right, env, s)
            IN  IF isError(r.val) THEN r
                ELSE [val |-> evalPrefixExpression(node.Operator, r.val),
                      s |-> r.s]
      [] node.kind = "InfixExpression" ->
            LET l == Eval(node.Left, env, s)
                r == Eval(node.Right, env, l.s)
            IN  IF isError(l.val) THEN l
                ELSE IF isError(r.val) THEN r
                ELSE [val |-> evalInfixExpression(node.Operator, l.val, r.val),
                      s |-> r.s]
      [] node.kind = "IfExpression" ->
            LET c == Eval(node.Condition, env, s)
            IN  IF isError(c.val) THEN c
                ELSE IF isTruthy(c.val)
                THEN evalBlockStatement(node.Consequence, env, c.s)
                ELSE IF node.Alternative.kind # "nil"
                THEN evalBlockStatement(node.Alternative, env, c.s)
                ELSE [val |-> Null, s |-> c.s]
      [] node.kind = "Identifier" ->
            [val |-> evalIdentifier(node, env, s.h), s |-> s]
      [] node.kind = "FunctionLiteral" ->
            [val |-> evalFunctionLiteral(node, env), s |-> s]
      [] node.kind = "CallExpression" ->
            LET f == Eval(node.Function, env, s)
                a == evalExpressions(node.Arguments, 1, <<>>, env, f.s)
            IN  IF isError(f.val) THEN f
                ELSE IF Len(a.vals) = 1 /\ isError(a.vals[1])
                THEN [val |-> a.vals[1], s |-> a.s]
                ELSE applyFunction(f.val, a.vals, a.s)

(***************************************************************************)
(* Programs to evaluate, as trees (the parser above has no handler for     *)
(* `fn`, `if`, `(` or `{`).                                                *)
(***************************************************************************)

ast_Int(n) == IntegerLiteral(Token(INT, <<48 + n>>), n)

ast_Ident(name) == Identifier(Token(IDENT, name), name)

ast_Bool(b) ==
    Boolean(IF b THEN Token(T_TRUE, kw_true) ELSE Token(T_FALSE, kw_false), b)

ast_Infix(left, type, operator, right) ==
    InfixExpression(Token(type, operator), left, operator, right)

ast_Expr(e) == ExpressionStatement(e.Token, e)

ast_Let(name, e) == LetStatement(Token(T_LET, kw_let), ast_Ident(name), e)

ast_Return(e) == ReturnStatement(Token(RETURN, kw_return), e)

ast_Block(stmts) == BlockStatement(Token(LBRACE, <<123>>), stmts)

ast_If(c, cons, alt) == IfExpression(Token(T_IF, kw_if), c, cons, alt)

ast_Fn(params, body) ==
    FunctionLiteral(Token(FUNCTION, kw_fn),
                    [i \in 1..Len(params) |-> ast_Ident(params[i])],
                    ast_Block(body))

ast_Call(f, args) == CallExpression(Token(LPAREN, <<40>>), f, args)

w_y        == <<121>>
w_f        == <<102>>
w_g        == <<103>>
w_newAdder == <<110, 101, 119, 65, 100, 100, 101, 114>>
w_addTwo   == <<97, 100, 100, 84, 119, 111>>

\* 5;   let x = 5;   x;   return 2;   5 + true;
\* if (true) { return 1; 5 }     if (7 > 1) { true + false; 5 }
\* let f = fn(y) { return y; 7 };     f(2);     if (false) { 7 }
EvalPool ==
    { ast_Expr(ast_Int(5)),
      ast_Let(w_x, ast_Int(5)),
      ast_Expr(ast_Ident(w_x)),
      ast_Return(ast_Int(2)),
      ast_Expr(ast_Infix(ast_Int(5), PLUS, w_plus, ast_Bool(TRUE))),
      ast_Expr(ast_If(ast_Bool(TRUE),
                      ast_Block(<<ast_Return(ast_Int(1)), ast_Expr(ast_Int(5))>>),
                      NilNode)),
      ast_Expr(ast_If(ast_Infix(ast_Int(7), GT, w_gt, ast_Int(1)),
                      ast_Block(<<ast_Expr(ast_Infix(ast_Bool(TRUE), PLUS, w_plus,
                                                     ast_Bool(FALSE))),
                                  ast_Expr(ast_Int(5))>>),
                      NilNode)),
      ast_Let(w_f, ast_Fn(<<w_y>>, <<ast_Return(ast_Ident(w_y)),
                                     ast_Expr(ast_Int(7))>>)),
      ast_Expr(ast_Call(ast_Ident(w_f), <<ast_Int(2)>>)),
      ast_Expr(ast_If(ast_Bool(FALSE), ast_Block(<<ast_Expr(ast_Int(7))>>),
                      NilNode)) }

MaxEvalStmts == 3

RECURSIVE EvalSeqs(_)
EvalSeqs(n) ==
    IF n = 1 THEN {<<st>> : st \in EvalPool}
    ELSE EvalSeqs(n - 1)
         \cup {Append(q, st) : q \in EvalSeqs(n - 1), st \in EvalPool}

\* let newAdder = fn(x) { fn(y) { x + y } }; let addTwo = newAdder(2);
AdderPrelude ==
    << ast_Let(w_newAdder,
               ast_Fn(<<w_x>>,
                      <<ast_Expr(ast_Fn(<<w_y>>,
                            <<ast_Expr(ast_Infix(ast_Ident(w_x), PLUS, w_plus,
                                                 ast_Ident(w_y)))>>))>>)),
       ast_Let(w_addTwo, ast_Call(ast_Ident(w_newAdder), <<ast_Int(2)>>)) >>

\* addTwo(3);
CallAddTwo == ast_Call(ast_Ident(w_addTwo), <<ast_Int(3)>>)

\* the closure example with other bindings of x and y in the calling scope:
\* none;  let x = 7;  let y = 7; let x = 7;  and the call made from inside
\* let g = fn(x) { addTwo(3) }; g(7);
AdderPrograms ==
    { AdderPrelude \o <<ast_Expr(CallAddTwo)>>,
      AdderPrelude \o <<ast_Let(w_x, ast_Int(7)), ast_Expr(CallAddTwo)>>,
      AdderPrelude \o <<ast_Let(w_y, ast_Int(7)), ast_Let(w_x, ast_Int(7)),
                        ast_Expr(CallAddTwo)>>,
      AdderPrelude \o <<ast_Let(w_g, ast_Fn(<<w_x>>, <<ast_Expr(CallAddTwo)>>)),
                        ast_Expr(ast_Call(ast_Ident(w_g), <<ast_Int(7)>>))>> }

EvalPrograms == EvalSeqs(MaxEvalStmts) \cup AdderPrograms

(***************************************************************************)
(* The evaluation of a Program in a new Environment, a statement a step:   *)
(* ev.steps are the statements evaluated so far with their values; the     *)
(* heap is `envs` and the Program's scope is its first Environment.        *)
(***************************************************************************)

EvalInit ==
    /\ ParserIdle
    /\ LexerIdle
    /\ OpIdle
    /\ ReplIdle
    /\ lastOp = [op |-> "none"]
    /\ envs = NewEnvironment(<<>>)
    /\ \E prog \in EvalPrograms :
          ev = [at |-> "eval", prog |-> prog, steps |-> <<>>, blocks |-> <<>>,
                calls |-> <<>>, result |-> NoObject]

\* the sequence ends here: all its statements are evaluated, or the last one
\* evaluated stops it
SequenceEnds ==
    \/ Len(ev.steps) = Len(ev.prog)
    \/ ev.steps # <<>> /\ Stops(ev.steps[Len(ev.steps)].val)

EvalStatement ==
    /\ ev.at = "eval"
    /\ ~SequenceEnds
    /\ LET st == ev.prog[Len(ev.steps) + 1]
           r  == Eval(st, 1, [h |-> envs, blocks |-> ev.blocks,
                              calls |-> ev.calls])
       IN  /\ envs' = r.s.h
           /\ ev' = [ev EXCEPT !.steps = Append(@, [stmt |-> st, val |-> r.val]),
                               !.blocks = r.s.blocks,
                               !.calls = r.s.calls]
    /\ UNCHANGED <<pvars, lvars, lastOp, call, repl>>

EvalReturn ==
    /\ ev.at = "eval"
    /\ SequenceEnds
    /\ ev' = [ev EXCEPT !.at = "done",
                        !.result = IF ev.steps = <<>> THEN NoObject
                                   ELSE ev.steps[Len(ev.steps)].val]
    /\ UNCHANGED <<pvars, lvars, evars, call, repl>>

EvalNext ==
    \/ EvalStatement
    \/ EvalReturn

EvalSpec == EvalInit /\ [][EvalNext]_vars

\* the statements evaluated are the first ones of the sequence, in order, and
\* none was evaluated after one that yielded a ReturnValue or an Error
InOrderUntilStop(stmts, steps) ==
    /\ Len(steps) <= Len(stmts)
    /\ \A i \in 1..Len(steps) : steps[i].stmt = stmts[i]
    /\ \A i \in 1..(Len(steps) - 1) :
          steps[i].val.Type \notin {RETURN_VALUE_OBJ, ERROR_OBJ}

\* the result of a finished sequence is the value of the statement that
\* stopped it, or of its last statement
ResultOfSequence(stmts, steps, result) ==
    /\ steps # <<>>
    /\ result = steps[Len(steps)].val
    /\ \/ Len(steps) = Len(stmts)
       \/ steps[Len(steps)].val.Type \in {RETURN_VALUE_OBJ, ERROR_OBJ}

\* C13: a statement sequence (the Program, a block) is evaluated in order;
\* as soon as a statement yields a ReturnValue or an Error none of the
\* remaining ones is evaluated and that value is the result; otherwise the
\* result is the value of the last statement.
C13_SequenceStopsAtReturnOrError ==
    ev.at \in {"eval", "done"} =>
        /\ InOrderUntilStop(ev.prog, ev.steps)
        /\ ev.at = "done" => ResultOfSequence(ev.prog, ev.steps, ev.result)
        /\ \A i \in 1..Len(ev.blocks) :
              /\ InOrderUntilStop(ev.blocks[i].stmts, ev.blocks[i].steps)
              /\ ResultOfSequence(ev.blocks[i].stmts, ev.blocks[i].steps,
                                  ev.blocks[i].result)

\* a block was left at an Error before its last statement, and the Program
\* ended with that Error before its last statement
C13_Witness ==
    /\ ev.at = "done"
    /\ Len(ev.steps) < Len(ev.prog)
    /\ ev.result.Type = ERROR_OBJ
    /\ \E i \in 1..Len(ev.blocks) :
          /\ Len(ev.blocks[i].steps) < Len(ev.blocks[i].stmts)
          /\ ev.blocks[i].result.Type = ERROR_OBJ

\* C14: a call evaluates the body in a new Environment whose outer link is
\* the environment the Function captured, not the caller's: the closure
\* example yields 5 whatever the calling scope binds.
C14_CallEnclosesCapturedEnv ==
    ev.at \in {"eval", "done"} =>
        /\ \A i \in 1..Len(ev.calls) :
              envs[ev.calls[i].env].outer = ev.calls[i].fn.Env
        /\ (ev.at = "done" /\ ev.prog \in AdderPrograms) =>
              (ev.result.Type = INTEGER_OBJ /\ ev.result.Value = 5)

\* addTwo(3) was called from a function scope that binds x to 7, and its body
\* ran in a scope enclosed by the scope of the call newAdder(2)
C14_Witness ==
    /\ ev.at = "done"
    /\ ev.prog \in AdderPrograms
    /\ Len(envs) = 4
    /\ w_x \in DOMAIN envs[3].store
    /\ envs[3].store[w_x].Value = 7
    /\ envs[4].outer = 2
    /\ ev.result.Value = 5

(***************************************************************************)
(* The operations of the Parser called one by one on a parser built by     *)
(* New: `call` is the last call with its arguments and what it returned.   *)
(***************************************************************************)

w_010    == <<48, 49, 48>>
w_big    == [i \in 1..20 |-> 57]
w_lparen == <<40>>

\* the words of the texts: a 5 010 99999999999999999999 ; = - (
OpWords == {w_a, w_5, w_010, w_big, w_semi, w_assign, w_minus, w_lparen}

MaxOpToks == 3

RECURSIVE WordSeqs(_)
WordSeqs(n) ==
    IF n = 0 THEN {<<>>}
    ELSE WordSeqs(n - 1)
         \cup {Append(ws, w) : ws \in WordSeqs(n - 1), w \in OpWords}

\* a call is made while the parser holds fewer diagnostics than this
MaxOpErrors == 1

OpInit ==
    /\ LexerIdle
    /\ EnvIdle
    /\ ReplIdle
    /\ EvalIdle
    /\ \E ws \in WordSeqs(MaxOpToks) : frags = <<ws>>
    /\ text = TextOf(frags)
    /\ p = ParserNew(LexerNew(text))
    /\ program = <<>>
    /\ pc = "ops"
    /\ stmt = NilNode
    /\ pass = 0
    /\ first = NoFirst
    /\ call = [op |-> "New"]

CanCall == pc = "ops" /\ Len(p.errors) < MaxOpErrors

CallNextToken ==
    /\ CanCall
    /\ CanRead
    /\ p' = nextToken(p)
    /\ call' = [op |-> "nextToken"]
    /\ UNCHANGED <<lvars, evars, repl, ev,
                   frags, text, program, pc, stmt, pass, first>>

CallExpectPeek ==
    /\ CanCall
    /\ CanRead
    /\ \E t \in {IDENT, ASSIGN, SEMICOLON} :
          LET r == expectPeek(p, t)
          IN  /\ p' = r.p
              /\ call' = [op |-> "expectPeek", t |-> t, ok |-> r.ok]
    /\ UNCHANGED <<lvars, evars, repl, ev,
                   frags, text, program, pc, stmt, pass, first>>

CallParseExpression ==
    /\ CanCall
    /\ \E precedence \in {LOWEST, SUM, PREFIX} :
          LET r == parseExpression(p, precedence)
          IN  /\ p' = r.p
              /\ call' = [op |-> "parseExpression", precedence |-> precedence,
                          exp |-> r.exp]
    /\ UNCHANGED <<lvars, evars, repl, ev,
                   frags, text, program, pc, stmt, pass, first>>

CallPeekPrecedence ==
    /\ CanCall
    /\ call' = [op |-> "peekPrecedence", ret |-> peekPrecedence(p)]
    /\ UNCHANGED <<lvars, evars, repl, ev, pvars>>

CallCurPrecedence ==
    /\ CanCall
    /\ call' = [op |-> "curPrecedence", ret |-> curPrecedence(p)]
    /\ UNCHANGED <<lvars, evars, repl, ev, pvars>>

\* parseIntegerLiteral is the prefix handler of INT and of no other token
CallParseIntegerLiteral ==
    /\ CanCall
    /\ curTokenIs(p, INT)
    /\ LET r == parseIntegerLiteral(p)
       IN  /\ p' = r.p
           /\ call' = [op |-> "parseIntegerLiteral", exp |-> r.exp]
    /\ UNCHANGED <<lvars, evars, repl, ev,
                   frags, text, program, pc, stmt, pass, first>>

OpNext ==
    \/ CallNextToken
    \/ CallExpectPeek
    \/ CallParseExpression
    \/ CallPeekPrecedence
    \/ CallCurPrecedence
    \/ CallParseIntegerLiteral

OpSpec == OpInit /\ [][OpNext]_vars

\* the precedence levels of the language definition, `(` being the token of
\* function application
RefPrecedence(t) ==
    CASE t \in {EQ, NOT_EQ}      -> EQUALS
      [] t \in {LT, GT}          -> LESSGREATER
      [] t \in {PLUS, MINUS}     -> SUM
      [] t \in {ASTERISK, SLASH} -> PRODUCT
      [] t = LPAREN              -> CALL
      [] OTHER                   -> LOWEST

\* C15: peekPrecedence and curPrecedence return the level of the precedence
\* table for the token they look at, LOWEST < EQUALS < LESSGREATER < SUM <
\* PRODUCT < PREFIX < CALL, with `(` at CALL and every token that is not an
\* operator at LOWEST.
C15_PrecedenceTable ==
    /\ LOWEST < EQUALS /\ EQUALS < LESSGREATER /\ LESSGREATER < SUM
    /\ SUM < PRODUCT /\ PRODUCT < PREFIX /\ PREFIX < CALL
    /\ call.op = "peekPrecedence" => call.ret = RefPrecedence(p.peekToken.Type)
    /\ call.op = "curPrecedence" => call.ret = RefPrecedence(p.curToken.Type)

\* C16: parseExpression on a current token with no prefix handler appends
\* exactly one diagnostic `no prefix parse function for <kind> found`, yields
\* no expression and leaves the current and the peek token unchanged.
C16_NoPrefixHandler ==
    [][(call'.op = "parseExpression" /\ prefixParseFns(p.curToken.Type) = "nil")
        => /\ p'.errors = Append(p.errors,
                  Diag("no prefix parse function for %s found",
                       <<p.curToken.Type>>))
           /\ call'.exp.kind = "nil"
           /\ p'.curToken = p.curToken
           /\ p'.peekToken = p.peekToken
           /\ p'.l = p.l]_vars

\* parseExpression was called on `(` and recorded the diagnostic
C16_Witness ==
    /\ call.op = "parseExpression"
    /\ call.exp.kind = "nil"
    /\ p.curToken.Type = LPAREN
    /\ p.errors = <<Diag("no prefix parse function for %s found", <<LPAREN>>)>>

\* the first n results of NextToken on lexer l, each with the lexer it leaves
RECURSIVE LexRun(_, _)
LexRun(l, n) ==
    IF n = 0 THEN <<>>
    ELSE CHOOSE run \in {<<r>> \o LexRun(r.l, n - 1) : r \in {NextToken(l)}} :
            TRUE

\* the output stream of the lexer on the text, as far as the parser gets: a
\* token for each word, and the EOF tokens after them
Stream == LexRun(LexerNew(text), Len(Flatten(frags)) + MaxEOFReads + 4)

\* the number of tokens parser q has pulled from the lexer
Pulled(q) ==
    LET st == Stream IN CHOOSE n \in 1..Len(st) : st[n].l = q.l

\* C17: expectPeek(kind) on a peek token of another kind appends exactly one
\* diagnostic `expected next token to be <kind>, got <actual> instead`,
\* returns false and leaves the tokens unchanged; on a peek token of that kind
\* it advances by exactly one token, returns true and appends no diagnostic.
C17_ExpectPeek ==
    [][call'.op = "expectPeek" =>
          IF p.peekToken.Type # call'.t
          THEN /\ ~call'.ok
               /\ p'.errors = Append(p.errors,
                      Diag("expected next token to be %s, got %s instead",
                           <<call'.t, p.peekToken.Type>>))
               /\ p'.curToken = p.curToken
               /\ p'.peekToken = p.peekToken
               /\ p'.l = p.l
          ELSE /\ call'.ok
               /\ p'.errors = p.errors
               /\ p'.curToken = p.peekToken
               /\ Pulled(p') = Pulled(p) + 1
               /\ p'.peekToken = Stream[Pulled(p')].tok]_vars

\* expectPeek(ASSIGN) has failed on the peek token `5`
C17_Witness ==
    /\ call.op = "expectPeek"
    /\ call.t = ASSIGN
    /\ ~call.ok
    /\ p.peekToken.Type = INT
    /\ p.errors = <<Diag("expected next token to be %s, got %s instead",
                         <<ASSIGN, INT>>)>>

\* the peek token follows the current token in the stream and is the last
\* token pulled, at least two being pulled
\* of parser q, whose lexer is n calls of NextToken or fewer after lexer l,
\* prev being the token returned before l
RECURSIVE FollowsInStream(_, _, _, _)
FollowsInStream(q, l, prev, n) ==
    /\ n > 0
    /\ \E r \in {NextToken(l)} :
          IF r.l.readPosition = q.l.readPosition
          THEN r.l = q.l /\ q.peekToken = r.tok /\ q.curToken = prev
          ELSE FollowsInStream(q, r.l, r.tok, n - 1)

Lookahead(q) ==
    /\ q.l # NextToken(LexerNew(text)).l
    /\ FollowsInStream(q, LexerNew(text), Token("", <<>>),
                       Len(Flatten(frags)) + MaxEOFReads + 4)

\* C18: after New and after any sequence of parser operations the peek token
\* is the token that follows the current token in the lexer's output; New
\* pulls exactly two tokens and each nextToken exactly one, promoting peek
\* into current.  (Every step from a parser just built, and every step into
\* a later state.)
C18_LookaheadInvariant ==
    [][/\ call.op = "New" => (Lookahead(p) /\ Pulled(p) = 2)
       /\ Lookahead(p')
       /\ call'.op = "nextToken" =>
             (Pulled(p') = Pulled(p) + 1 /\ p'.curToken = p.peekToken)]_vars

\* nextToken has made the third token of `a - 5` the peek token
C18_Witness ==
    /\ call.op = "nextToken"
    /\ frags = <<(<<w_a, w_minus, w_5>>)>>
    /\ p.curToken.Type = MINUS
    /\ p.peekToken.Type = INT
    /\ Pulled(p) = 3

\* every prefix and infix expression below n has its operands
RECURSIVE OperandsPresent(_)
OperandsPresent(n) ==
    CASE n.kind = "PrefixExpression" ->
            n.Right.kind # "nil" /\ OperandsPresent(n.Right)
      [] n.kind = "InfixExpression" ->
            /\ n.Left.kind # "nil" /\ OperandsPresent(n.Left)
            /\ n.Right.kind # "nil" /\ OperandsPresent(n.Right)
      [] n.kind = "ExpressionStatement" ->
            n.Expression.kind = "nil" \/ OperandsPresent(n.Expression)
      [] OTHER -> TRUE

\* C19: every PrefixExpression and InfixExpression of a Program returned by
\* ParseProgram has all its operands, for every input, so that String() is
\* defined on every node of the Program.
C19_OperandsPresent ==
    Parsed => \A i \in 1..Len(program) : OperandsPresent(program[i])

\* the decimal value of a run of digits
RECURSIVE DecimalValue(_)
DecimalValue(d) ==
    IF d = <<>> THEN 0
    ELSE 10 * DecimalValue(SubSeq(d, 1, Len(d) - 1)) + (d[Len(d)] - 48)

\* the decimal value of the digits is at most 9223372036854775807
FitsInt64(d) ==
    LET sig == StripZeros(d)
    IN  \/ Len(sig) < 19
        \/ Len(sig) = 19 /\ DigitsLeq(sig, MaxInt64Digits(10))

\* C20: on an integer-literal token, leading zeros included, whose decimal
\* value fits 64 bits, parseIntegerLiteral returns an IntegerLiteral of that
\* decimal value and records nothing; on one that does not fit it records
\* `could not parse "<literal>" as an integer` and yields no node.
C20_IntegerLiteralIsDecimal ==
    [][call'.op = "parseIntegerLiteral" =>
          IF FitsInt64(p.curToken.Literal)
          THEN /\ call'.exp.kind = "IntegerLiteral"
               /\ call'.exp.Value = DecimalValue(p.curToken.Literal)
               /\ p'.errors = p.errors
          ELSE /\ call'.exp.kind = "nil"
               /\ p'.errors = Append(p.errors,
                      Diag("could not parse %q as an integer",
                           <<p.curToken.Literal>>))]_vars

====
